---- MODULE Spec2Model ----
(***************************************************************************)
(* Magic-link authentication and session handling of setlist_manager.      *)
(*                                                                         *)
(* The credential store (users, magic_links, sessions tables), the         *)
(* AuthService on top of it and the /auth/* HTTP handlers are modelled as  *)
(* request processes.  Every SQL statement is one atomic step; a handler   *)
(* that issues several statements is a sequence of steps, so that two      *)
(* requests can interleave between their statements.  Spec lets requests   *)
(* run concurrently; SpecSeq runs the same steps with one request in       *)
(* flight at a time (the clock still advances at any moment).              *)
(*                                                                         *)
(* The authorization guard (band membership and roles in front of the      *)
(* band, song and section handlers) is modelled on top of the same store:  *)
(* SpecMembers, SpecSongs and SpecSections run those handlers one request  *)
(* at a time from a store that earlier logins and invitations left behind. *)
(***************************************************************************)
EXTENDS Integers, FiniteSets, Sequences, TLC

\* ---------------------------------------------------------------- bounds
\* The clock runs over 0..MaxTime.
MaxTime == 2
\* Raw tokens are 1..MaxTokens: the values crypto/rand can hand out.
MaxTokens == 3
\* At most MaxBands rows in bands and MaxInvitations rows in band_invitations:
\* a band or an invitation is created only while there is room.
MaxBands == 3
MaxInvitations == 2

\* ------------------------------------------------------ program constants
\* The two lifetimes, each scaled to the model's clock: a row expires one
\* clock unit after it is written.  Only the order of the clock and an expiry
\* instant enters the code's checks (time.Now().After, expires_at < ?), and no
\* check compares a link's expiry with a session's.
\* 15 * time.Minute
MagicLinkTTL == 1
\* 7 * 24 * time.Hour
SessionTTL == 1
\* 7 * 24 * time.Hour: an invitation's lifetime, scaled the same way.
InvitationTTL == 1
\* A nil pointer / SQL NULL (UsedAt, LastLogin), and "no value" in a response.
Null == -1
\* The empty string as a token: a missing query parameter or cookie.
EmptyToken == 0

\* The empty string as an email: a request body without (or with an empty)
\* "email" member decodes to it.
EmptyEmail == ""

\* Request workers: the HTTP server runs each request on its own goroutine.
Procs == {"r1", "r2"}
Emails == {"ana@x", "bob@x"}
Tokens == 1..MaxTokens

VARIABLES
    now,            \* time.Now()
    users,          \* table users:       [id, email, last_login]
    magic_links,    \* table magic_links: [id, user_id, token_hash, expires_at, used_at]
    sessions,       \* table sessions:    [id, user_id, session_token, expires_at, created_at]
    bands,          \* table bands:       [id, created_by]
    band_members,   \* table band_members:[id, band_id, user_id, role, is_active]
    songs,          \* table songs:         [id, band_id, position, content, created_by, is_active]
    song_sections,  \* table song_sections: [id, song_id, position, is_active]
    band_invitations, \* table band_invitations: [id, band_id, invited_email, role, status, expires_at]
    issued,         \* raw tokens generateRandomToken has returned so far
    pc,             \* per request worker: position in its handler
    loc,            \* per request worker: the handler's local variables
    req,            \* per request worker: the request in flight and what it has seen
    last,           \* the response the latest step sent (NoRes: it sent none)
    linkEmail,      \* history: raw link token -> email it was requested for
    linkExp,        \* history: raw link token -> expires_at of its MagicLink
    sessUser,       \* history: raw session token -> user id it was created for
    sessFrom,       \* history: raw session token -> link token whose verification minted it
    sessExp,        \* history: raw session token -> expires_at of its Session
    okCount,        \* history: raw link token -> number of successful verifications
    invalidated     \* history: session tokens invalidate_session was called with

vars == <<now, users, magic_links, sessions, bands, band_members, songs, song_sections,
          band_invitations,
          issued, pc, loc, req, last,
          linkEmail, linkExp, sessUser, sessFrom, sessExp, okCount, invalidated>>

store == <<users, magic_links, sessions, bands, band_members>>
catalog == <<songs, song_sections, band_invitations>>
history == <<linkEmail, linkExp, sessUser, sessFrom, sessExp, okCount, invalidated>>

\* ------------------------------------------------------------ token codec

\* sha256 of the token, hex encoded.  A digest is never itself a value the
\* random source returned, and distinct tokens have distinct digests.
hashToken(token) == MaxTokens + 1 + token

\* 32 bytes of crypto/rand, hex encoded: a value never returned before.
\* Which fresh value comes out is immaterial (the model is symmetric in the
\* token names), so the least one is taken.
FreshTokens == Tokens \ issued
generateRandomToken == CHOOSE t \in FreshTokens : \A u \in FreshTokens : t <= u

\* fmt.Sprintf("%d", time.Now().UnixNano())
generateUUID == now

\* --------------------------------------------------------------- the store
\* A lookup returns the set of matching rows: {} is the nil result of
\* sql.ErrNoRows, a singleton is the row QueryRow scanned.
TheRow(rows) == CHOOSE r \in rows : TRUE

GetUserByEmail(email) == {u \in users : u.email = email}

GetUserByID(userID) == {u \in users : u.id = userID}

\* INSERT INTO users: id is the primary key, email is UNIQUE.
CreateUserFails(email) == \E u \in users : u.id = generateUUID \/ u.email = email

CreateUser(email) == [id |-> generateUUID, email |-> email, last_login |-> Null]

UpdateUserLastLogin(userID) ==
    {IF u.id = userID THEN [u EXCEPT !.last_login = now] ELSE u : u \in users}

\* INSERT INTO magic_links: id is the primary key; used_at starts NULL.
CreateMagicLinkFails == \E m \in magic_links : m.id = generateUUID

CreateMagicLink(userID, tokenHash, expiresAt) ==
    [id |-> generateUUID, user_id |-> userID, token_hash |-> tokenHash,
     expires_at |-> expiresAt, used_at |-> Null]

GetMagicLinkByTokenHash(tokenHash) == {m \in magic_links : m.token_hash = tokenHash}

\* Variant: the update reaches every link of the verified link's user.
MarkMagicLinkAsUsedOfUser(magicLinkID) ==
    {IF \E v \in magic_links : v.id = magicLinkID /\ v.user_id = m.user_id
     THEN [m EXCEPT !.used_at = now] ELSE m : m \in magic_links}

\* UPDATE magic_links SET used_at = ? WHERE id = ?
MarkMagicLinkAsUsed(magicLinkID) ==
    {IF m.id = magicLinkID THEN [m EXCEPT !.used_at = now] ELSE m : m \in magic_links}

\* INSERT INTO sessions: id is the primary key, session_token is UNIQUE.
CreateSessionFails(sessionToken) ==
    \E s \in sessions : s.id = generateUUID \/ s.session_token = sessionToken

CreateSessionRow(userID, sessionToken, expiresAt) ==
    [id |-> generateUUID, user_id |-> userID, session_token |-> sessionToken,
     expires_at |-> expiresAt, created_at |-> now]

GetSessionByToken(sessionToken) == {s \in sessions : s.session_token = sessionToken}

\* Variant: the DELETE matches the id column against the token, so no row goes.
DeleteSessionByID(sessionToken) == {s \in sessions : s.id # sessionToken}

\* DELETE FROM sessions WHERE session_token = ?
DeleteSession(sessionToken) == {s \in sessions : s.session_token # sessionToken}

\* SELECT ... FROM bands b INNER JOIN band_members bm ... WHERE bm.user_id = ?
\*   AND bm.is_active = 1
GetBandsByUser(userID) ==
    {b \in bands : \E bm \in band_members :
        bm.band_id = b.id /\ bm.user_id = userID /\ bm.is_active}

\* Variant: the sweep also takes the rows that expire at this very instant.
CleanupExpiredMagicLinksRowsInclusive == {m \in magic_links : ~(m.expires_at <= now)}

\* DELETE FROM magic_links WHERE expires_at < ?
CleanupExpiredMagicLinksRows == {m \in magic_links : ~(m.expires_at < now)}

\* DELETE FROM sessions WHERE expires_at < ?
CleanupExpiredSessionsRows == {s \in sessions : ~(s.expires_at < now)}

\* ------------------------------------------------------------- AuthService

\* Variant: the used-at check is missing.
VerifyChecksNoUsed(ml) ==
    IF ml = {} THEN "invalid"
    ELSE IF now > TheRow(ml).expires_at THEN "expired"
    ELSE "pass"

\* Variant: the expiry instant itself already counts as expired.
VerifyChecksInclusive(ml) ==
    IF ml = {} THEN "invalid"
    ELSE IF now >= TheRow(ml).expires_at THEN "expired"
    ELSE IF TheRow(ml).used_at # Null THEN "used"
    ELSE "pass"

\* Variant: the used-at check comes before the expiry check.
VerifyChecksUsedFirst(ml) ==
    IF ml = {} THEN "invalid"
    ELSE IF TheRow(ml).used_at # Null THEN "used"
    ELSE IF now > TheRow(ml).expires_at THEN "expired"
    ELSE "pass"

\* VerifyMagicLink, after the lookup: the checks that decide whether the
\* link may be consumed, in the order the code makes them.
VerifyChecks(ml) ==
    IF ml = {} THEN "invalid"
    ELSE IF now > TheRow(ml).expires_at THEN "expired"
    ELSE IF TheRow(ml).used_at # Null THEN "used"
    ELSE "pass"

\* Variant: a failed last-login update fails the verification.
AfterLastLoginStrict(failed) == IF failed THEN "store_error" ELSE "ok"

\* VerifyMagicLink, after s.db.UpdateUserLastLogin: an error is only logged
\* and the user is returned all the same.
AfterLastLogin(failed) == "ok"

\* Variant: the raw session token is stored.
SessionStoredRaw(sessionToken) == sessionToken

\* CreateSession: the value written to sessions.session_token.
SessionStoredValue(sessionToken) == hashToken(sessionToken)

\* Variant: the raw link token is stored.
LinkStoredRaw(token) == token

\* GenerateMagicLink: the value written to magic_links.token_hash.
LinkStoredValue(token) == hashToken(token)

\* Variant: the expiry check is missing.
GetUserFromSessionNoExpiry(sessionToken) ==
    LET session == GetSessionByToken(hashToken(sessionToken)) IN
    IF session = {} THEN [outcome |-> "not_found", user |-> Null]
    ELSE LET user == GetUserByID(TheRow(session).user_id) IN
         IF user = {} THEN [outcome |-> "user_not_found", user |-> Null]
         ELSE [outcome |-> "ok", user |-> TheRow(user).id]

\* GetUserFromSession: the outcome and the user id it returns.
GetUserFromSession(sessionToken) ==
    LET session == GetSessionByToken(hashToken(sessionToken)) IN
    IF session = {} THEN [outcome |-> "not_found", user |-> Null]
    ELSE IF now > TheRow(session).expires_at THEN [outcome |-> "expired", user |-> Null]
    ELSE LET user == GetUserByID(TheRow(session).user_id) IN
         IF user = {} THEN [outcome |-> "user_not_found", user |-> Null]
         ELSE [outcome |-> "ok", user |-> TheRow(user).id]

\* shared.AuthService.GetCurrentUser(r): nil without a cookie, without a
\* session row, or past the session's expiry; otherwise the user row is
\* converted field by field without a nil check, so a session whose user row
\* is missing ends in a nil-pointer panic.
GetCurrentUser(sessionToken) ==
    LET session == GetSessionByToken(hashToken(sessionToken)) IN
    IF sessionToken = EmptyToken THEN [outcome |-> "nil", user |-> Null]
    ELSE IF session = {} THEN [outcome |-> "nil", user |-> Null]
    ELSE IF now > TheRow(session).expires_at THEN [outcome |-> "nil", user |-> Null]
    ELSE LET user == GetUserByID(TheRow(session).user_id) IN
         IF user = {} THEN [outcome |-> "panic", user |-> Null]
         ELSE [outcome |-> "user", user |-> TheRow(user).id]

\* Variant: an already-used link is answered by an error indicator of its own.
VerifyFailureStatusByReason(reason) ==
    IF reason = "used" THEN "303_login_used" ELSE "303_login_error"

\* HandleMagicLinkVerification, err != nil: whatever the error says, the
\* answer is the redirect to /auth/login?error=invalid_token.
VerifyFailureStatus(reason) == "303_login_error"

\* ------------------------------------------------------- request workers
\* The locals of a handler: the user and the magic link it looked up ({} is
\* nil), each reduced to the fields the handler reads afterwards.
NoLoc == [user |-> {}, ml |-> {}]

UserFields(rows) == {[id |-> u.id] : u \in rows}

MagicLinkFields(rows) == {[id |-> m.id, user_id |-> m.user_id] : m \in rows}

\* Where the clock stands relative to an expiry instant (Null: there is none).
When(expiresAt) ==
    IF expiresAt = Null THEN "none"
    ELSE IF now < expiresAt THEN "before"
    ELSE IF now = expiresAt THEN "at"
    ELSE "after"

\* A request and its response.  op, token, email: the request.  outcome: what
\* the service call returned; status: the HTTP answer; user: the user id in
\* it; cookie: the session token set.  Recorded when the request is read:
\* when (clock against the expiry of the presented token's link or session),
\* found and used (the magic link row exists, its used_at is set), inval (the
\* session token was invalidated before), first (no verification of the token
\* has succeeded before).  nth: for a verification that succeeds, its ordinal
\* among the successful verifications of its token.  lastLoginFailed: the
\* last-login update of this verification returned an error.
\* For the band-, song- and section-scoped requests: auth (the cookie resolved
\* to a user), target (the request names an object that belongs to a band),
\* role (the caller's role in that band, "none" without an active membership),
\* targetRole (the role there of the user the request is about) and changed
\* (the request changed a band, membership, song or section row); self: the
\* user the request is about is the caller; addressee: the caller's email is
\* the one the invitation of the request was sent to; inside: the section of
\* the request belongs to the song of the request.
NoRes == [op |-> "none", token |-> EmptyToken, email |-> "", outcome |-> "none",
          status |-> "none", user |-> Null, cookie |-> EmptyToken, when |-> "none",
          found |-> FALSE, used |-> FALSE, first |-> FALSE, inval |-> FALSE, nth |-> 0,
          lastLoginFailed |-> FALSE,
          auth |-> FALSE, target |-> FALSE, role |-> "none", targetRole |-> "none",
          changed |-> FALSE, self |-> FALSE, addressee |-> FALSE, inside |-> FALSE]

\* A request starts on an idle worker; with excl it also waits for every
\* other request to finish (one request at a time).
Idle(p, excl) == pc[p] = "idle" /\ (excl => \A q \in Procs : pc[q] = "idle")

\* Bound on token generation: a request that may generate a token starts
\* only while a fresh token is left for it and for each request in flight.
TokenLeft(p) ==
    Cardinality(FreshTokens) > Cardinality({q \in Procs \ {p} : pc[q] # "idle"})

Init ==
    /\ now = 0
    /\ users = {} /\ magic_links = {} /\ sessions = {}
    /\ bands = {} /\ band_members = {}
    /\ songs = {} /\ song_sections = {}
    /\ band_invitations = {}
    /\ issued = {}
    /\ pc = [p \in Procs |-> "idle"]
    /\ loc = [p \in Procs |-> NoLoc]
    /\ req = [p \in Procs |-> NoRes]
    /\ last = NoRes
    /\ linkEmail = [t \in Tokens |-> ""]
    /\ linkExp = [t \in Tokens |-> Null]
    /\ sessUser = [t \in Tokens |-> Null]
    /\ sessFrom = [t \in Tokens |-> EmptyToken]
    /\ sessExp = [t \in Tokens |-> Null]
    /\ okCount = [t \in Tokens |-> 0]
    /\ invalidated = {}

\* A step that sends no response.
Quiet == last' = NoRes

\* The clock advances at any moment, also between two statements of a handler.
Tick ==
    /\ now < MaxTime
    /\ now' = now + 1
    /\ Quiet
    /\ UNCHANGED <<store, catalog, issued, pc, loc, req, history>>

\* The handler returns: the response r goes out and the worker is free again.
Finish(p, r) ==
    /\ pc' = [pc EXCEPT ![p] = "idle"]
    /\ loc' = [loc EXCEPT ![p] = NoLoc]
    /\ req' = [req EXCEPT ![p] = NoRes]
    /\ last' = r

\* POST /auth/magic-link -> GenerateMagicLink: s.db.GetUserByEmail(email).
HandleMagicLinkRequest(p, email, excl) ==
    /\ Idle(p, excl)
    /\ TokenLeft(p)
    /\ LET user == GetUserByEmail(email) IN
       /\ loc' = [loc EXCEPT ![p] = [NoLoc EXCEPT !.user = UserFields(user)]]
       /\ pc' = [pc EXCEPT ![p] =
                    IF user = {} THEN "gml_create_user" ELSE "gml_create_link"]
       /\ req' = [req EXCEPT ![p] = [NoRes EXCEPT !.op = "magic_link",
                    !.email = email]]
    /\ Quiet
    /\ UNCHANGED <<now, catalog, store, issued, history>>

\* GenerateMagicLink, user == nil: s.db.CreateUser(email).
GenerateMagicLinkCreateUser(p) ==
    /\ pc[p] = "gml_create_user"
    /\ IF CreateUserFails(req[p].email)
       THEN /\ Finish(p, [req[p] EXCEPT !.status = "500",
                                        !.outcome = "create_user_error"])
            /\ UNCHANGED users
       ELSE /\ users' = users \cup {CreateUser(req[p].email)}
            /\ loc' = [loc EXCEPT ![p].user = UserFields({CreateUser(req[p].email)})]
            /\ pc' = [pc EXCEPT ![p] = "gml_create_link"]
            /\ Quiet
            /\ UNCHANGED req
    /\ UNCHANGED <<now, catalog, magic_links, sessions, bands, band_members, issued, history>>

\* GenerateMagicLink: generateRandomToken, hashToken, s.db.CreateMagicLink;
\* the handler then logs the link and answers 200.
GenerateMagicLinkCreateLink(p) ==
    /\ pc[p] = "gml_create_link"
    /\ LET token == generateRandomToken
           user == TheRow(loc[p].user)
           expiresAt == now + MagicLinkTTL
       IN /\ issued' = issued \cup {token}
          /\ IF CreateMagicLinkFails
             THEN /\ Finish(p, [req[p] EXCEPT !.status = "500", !.outcome = "store_error"])
                  /\ UNCHANGED <<magic_links, linkEmail, linkExp>>
             ELSE /\ magic_links' = magic_links \cup
                        {CreateMagicLink(user.id, LinkStoredValue(token), expiresAt)}
                  /\ Finish(p, [req[p] EXCEPT !.status = "200", !.outcome = "ok",
                                   !.token = token, !.user = user.id])
                  /\ linkEmail' = [linkEmail EXCEPT ![token] = req[p].email]
                  /\ linkExp' = [linkExp EXCEPT ![token] = expiresAt]
    /\ UNCHANGED <<now, catalog, users, sessions, bands, band_members,
                   sessUser, sessFrom, sessExp, okCount, invalidated>>

\* GET /auth/verify -> VerifyMagicLink: the empty-token check of the handler,
\* s.db.GetMagicLinkByTokenHash(hashToken(token)) and the checks on the row.
\* A failed verification is answered by the redirect to the login page.
HandleMagicLinkVerification(p, token, excl) ==
    /\ Idle(p, excl)
    /\ TokenLeft(p)
    /\ LET ml == GetMagicLinkByTokenHash(hashToken(token))
           seen == [NoRes EXCEPT !.op = "verify", !.token = token,
                        !.when = When(linkExp[token]),
                        !.found = ml # {},
                        !.first = okCount[token] = 0,
                        !.used = ml # {} /\ TheRow(ml).used_at # Null]
       IN IF token = EmptyToken
          THEN Finish(p, [NoRes EXCEPT !.op = "verify", !.status = "400"])
          ELSE IF VerifyChecks(ml) # "pass"
          THEN Finish(p, [seen EXCEPT !.outcome = VerifyChecks(ml),
                                      !.status = VerifyFailureStatus(VerifyChecks(ml))])
          ELSE /\ pc' = [pc EXCEPT ![p] = "verify_mark"]
               /\ loc' = [loc EXCEPT ![p] = [NoLoc EXCEPT !.ml = MagicLinkFields(ml)]]
               /\ req' = [req EXCEPT ![p] = seen]
               /\ Quiet
    /\ UNCHANGED <<now, catalog, store, issued, history>>

\* VerifyMagicLink: s.db.MarkMagicLinkAsUsed(magicLink.ID).
VerifyMagicLinkMark(p) ==
    /\ pc[p] = "verify_mark"
    /\ magic_links' = MarkMagicLinkAsUsed(TheRow(loc[p].ml).id)
    /\ pc' = [pc EXCEPT ![p] = "verify_user"]
    /\ Quiet
    /\ UNCHANGED <<now, catalog, users, sessions, bands, band_members, issued, loc, req, history>>

\* VerifyMagicLink: s.db.GetUserByID(magicLink.UserID), s.db.UpdateUserLastLogin
\* (a write the store may refuse: failed), return user.  From here on the
\* verification has succeeded.
VerifyMagicLinkUser(p) ==
    /\ pc[p] = "verify_user"
    /\ LET user == GetUserByID(TheRow(loc[p].ml).user_id) IN
       IF user = {}
       THEN /\ Finish(p, [req[p] EXCEPT !.outcome = "user_not_found",
                                        !.status = "303_login_error"])
            /\ UNCHANGED <<users, okCount>>
       ELSE \E failed \in BOOLEAN :
            /\ users' = IF failed THEN users ELSE UpdateUserLastLogin(TheRow(user).id)
            /\ IF AfterLastLogin(failed) # "ok"
               THEN /\ Finish(p, [req[p] EXCEPT !.outcome = AfterLastLogin(failed),
                                                !.status = "303_login_error",
                                                !.lastLoginFailed = failed])
                    /\ UNCHANGED okCount
               ELSE /\ loc' = [loc EXCEPT ![p].user = UserFields(user)]
                    /\ pc' = [pc EXCEPT ![p] = "verify_session"]
                    /\ req' = [req EXCEPT ![p] = [req[p] EXCEPT !.outcome = "ok",
                                    !.user = TheRow(user).id,
                                    !.nth = okCount[req[p].token] + 1,
                                    !.lastLoginFailed = failed]]
                    /\ okCount' = [okCount EXCEPT ![req[p].token] = @ + 1]
                    /\ Quiet
    /\ UNCHANGED <<now, catalog, magic_links, sessions, bands, band_members, issued,
                   linkEmail, linkExp, sessUser, sessFrom, sessExp, invalidated>>

\* HandleMagicLinkVerification -> CreateSession(user.ID): generateRandomToken,
\* hashToken, s.db.CreateSession with expiry now + 7 days; then http.SetCookie.
HandleMagicLinkVerificationSession(p) ==
    /\ pc[p] = "verify_session"
    /\ LET sessionToken == generateRandomToken
           user == TheRow(loc[p].user)
           expiresAt == now + SessionTTL
       IN /\ issued' = issued \cup {sessionToken}
          /\ IF CreateSessionFails(SessionStoredValue(sessionToken))
             THEN /\ Finish(p, [req[p] EXCEPT !.status = "500"])
                  /\ UNCHANGED <<sessions, sessUser, sessFrom, sessExp>>
             ELSE /\ sessions' = sessions \cup
                        {CreateSessionRow(user.id, SessionStoredValue(sessionToken), expiresAt)}
                  /\ pc' = [pc EXCEPT ![p] = "verify_band"]
                  /\ req' = [req EXCEPT ![p] = [req[p] EXCEPT !.cookie = sessionToken]]
                  /\ sessUser' = [sessUser EXCEPT ![sessionToken] = user.id]
                  /\ sessFrom' = [sessFrom EXCEPT ![sessionToken] = req[p].token]
                  /\ sessExp' = [sessExp EXCEPT ![sessionToken] = expiresAt]
                  /\ Quiet
                  /\ UNCHANGED loc
    /\ UNCHANGED <<now, catalog, users, magic_links, bands, band_members,
                   linkEmail, linkExp, okCount, invalidated>>

\* CreateBand: INSERT INTO bands, then AddBandMember(bandID, createdBy, "owner").
\* Either insert fails on a primary-key clash (and the member insert on
\* UNIQUE(band_id, user_id)); a failure of the first skips the second.
CreateBandFails == \E b \in bands : b.id = generateUUID

AddBandMemberFails(bandID, userID) ==
    \E bm \in band_members :
        bm.id = generateUUID \/ (bm.band_id = bandID /\ bm.user_id = userID)

AddBandMember(bandID, userID, role) ==
    [id |-> generateUUID, band_id |-> bandID, user_id |-> userID,
     role |-> role, is_active |-> TRUE]

\* HandleMagicLinkVerification: a user without bands gets a default band
\* (errors are logged, the login goes on); then the redirect to /bands.
HandleMagicLinkVerificationBand(p) ==
    /\ pc[p] = "verify_band"
    /\ LET user == TheRow(loc[p].user) IN
       IF GetBandsByUser(user.id) # {} \/ CreateBandFails
       THEN UNCHANGED <<bands, band_members>>
       ELSE /\ bands' = bands \cup {[id |-> generateUUID, created_by |-> user.id]}
            /\ band_members' =
                 IF AddBandMemberFails(generateUUID, user.id) THEN band_members
                 ELSE band_members \cup {AddBandMember(generateUUID, user.id, "owner")}
    /\ Finish(p, [req[p] EXCEPT !.status = "303_bands"])
    /\ UNCHANGED <<now, catalog, users, magic_links, sessions, issued, history>>

\* GET /auth/me -> getCurrentUser: no cookie is 401, else GetUserFromSession.
\* inval and exp record what is known of the presented token at this moment.
HandleCurrentUser(p, token, excl) ==
    /\ Idle(p, excl)
    /\ LET asked == [NoRes EXCEPT !.op = "resolve", !.token = token,
                        !.inval = token \in invalidated,
                        !.when = IF token \in Tokens THEN When(sessExp[token])
                                 ELSE "none"]
           got == GetUserFromSession(token)
       IN IF token = EmptyToken
          THEN Finish(p, [asked EXCEPT !.status = "401", !.outcome = "no_cookie"])
          ELSE IF got.outcome # "ok"
          THEN Finish(p, [asked EXCEPT !.status = "401", !.outcome = got.outcome])
          ELSE Finish(p, [asked EXCEPT !.status = "200", !.outcome = "ok",
                                       !.user = got.user])
    /\ UNCHANGED <<now, catalog, store, issued, history>>

\* POST /auth/logout: the handler clears the cookie and redirects to the
\* login page; it makes no store call.
HandleLogout(p, token, excl) ==
    /\ Idle(p, excl)
    /\ Finish(p, [NoRes EXCEPT !.op = "logout", !.token = token,
                               !.status = "303_login", !.cookie = EmptyToken])
    /\ UNCHANGED <<now, catalog, store, issued, history>>

\* invalidate_session(raw token): delete the Session row stored under the
\* token's hash; deleting a session that does not exist is not an error.
\* invalidated remembers the call for tokens of sessions created before it.
InvalidateSession(p, token, excl) ==
    /\ Idle(p, excl)
    /\ sessions' = DeleteSession(hashToken(token))
    /\ invalidated' = invalidated \cup {t \in {token} : sessUser[t] # Null}
    /\ Finish(p, [NoRes EXCEPT !.op = "invalidate", !.token = token,
                               !.outcome = "ok"])
    /\ UNCHANGED <<now, catalog, users, magic_links, bands, band_members, issued,
                   linkEmail, linkExp, sessUser, sessFrom, sessExp, okCount>>

\* The housekeeping sweeps; each is one DELETE statement.
CleanupExpiredMagicLinks(excl) ==
    /\ excl => \A q \in Procs : pc[q] = "idle"
    /\ magic_links' = CleanupExpiredMagicLinksRows
    /\ Quiet
    /\ UNCHANGED <<now, catalog, users, sessions, bands, band_members, issued, pc, loc, req,
                   history>>

CleanupExpiredSessions(excl) ==
    /\ excl => \A q \in Procs : pc[q] = "idle"
    /\ sessions' = CleanupExpiredSessionsRows
    /\ Quiet
    /\ UNCHANGED <<now, catalog, users, magic_links, bands, band_members, issued, pc, loc, req,
                   history>>

\* A route behind authMiddleware (here GET /, which redirects to /bands):
\* without a current user the request is redirected to the login page; a panic
\* in the handler chain is caught by middleware.Recoverer and answered 500.
ServeWelcome(p, token, excl) ==
    /\ Idle(p, excl)
    /\ LET asked == [NoRes EXCEPT !.op = "protected", !.token = token]
           got == GetCurrentUser(token)
       IN IF got.outcome = "panic"
          THEN Finish(p, [asked EXCEPT !.status = "500", !.outcome = "panic"])
          ELSE IF got.outcome = "nil"
          THEN Finish(p, [asked EXCEPT !.status = "303_login", !.outcome = "nil"])
          ELSE Finish(p, [asked EXCEPT !.status = "303_bands", !.outcome = "ok",
                                       !.user = got.user])
    /\ UNCHANGED <<now, catalog, store, issued, history>>

\* The steps a request in flight takes, whoever else is running.
Step(p) ==
    \/ GenerateMagicLinkCreateUser(p)
    \/ GenerateMagicLinkCreateLink(p)
    \/ VerifyMagicLinkMark(p)
    \/ VerifyMagicLinkUser(p)
    \/ HandleMagicLinkVerificationSession(p)
    \/ HandleMagicLinkVerificationBand(p)

\* Login and session resolution on concurrent workers, interleaved at their
\* store statements, with the sweeps running at any moment.
Next ==
    \/ Tick
    \/ \E p \in Procs, email \in Emails : HandleMagicLinkRequest(p, email, FALSE)
    \/ \E p \in Procs, token \in Tokens \cup {EmptyToken} :
          HandleMagicLinkVerification(p, token, FALSE)
    \/ \E p \in Procs, token \in Tokens \cup {EmptyToken} :
          HandleCurrentUser(p, token, FALSE)
    \/ \E p \in Procs : Step(p)
    \/ CleanupExpiredMagicLinks(FALSE)
    \/ CleanupExpiredSessions(FALSE)

Spec == Init /\ [][Next]_vars

\* Every operation, one request (or sweep) at a time on a single worker.
SeqWorker == CHOOSE p \in Procs : TRUE

NextSeq ==
    \/ Tick
    \/ \E email \in Emails : HandleMagicLinkRequest(SeqWorker, email, TRUE)
    \/ \E token \in Tokens \cup {EmptyToken} :
          HandleMagicLinkVerification(SeqWorker, token, TRUE)
    \/ \E token \in Tokens \cup {EmptyToken} : HandleCurrentUser(SeqWorker, token, TRUE)
    \/ \E token \in Tokens : HandleLogout(SeqWorker, token, TRUE)
    \/ \E token \in Tokens : InvalidateSession(SeqWorker, token, TRUE)
    \/ Step(SeqWorker)
    \/ CleanupExpiredMagicLinks(TRUE)
    \/ CleanupExpiredSessions(TRUE)

SpecSeq == Init /\ [][NextSeq]_vars

\* ------------------------------------------------------------ store faults
\* Variant: the error of s.db.MarkMagicLinkAsUsed is ignored and the
\* verification goes on to the user lookup.
VerifyMagicLinkMarkIgnored(p) ==
    /\ pc[p] = "verify_mark"
    /\ pc' = [pc EXCEPT ![p] = "verify_user"]
    /\ Quiet
    /\ UNCHANGED <<now, catalog, store, issued, loc, req, history>>

\* VerifyMagicLink when s.db.MarkMagicLinkAsUsed returns an error: the row is
\* not written and the call returns "failed to mark token as used".
VerifyMagicLinkMarkFails(p) ==
    /\ pc[p] = "verify_mark"
    /\ Finish(p, [req[p] EXCEPT !.outcome = "mark_failed", !.status = "303_login_error"])
    /\ UNCHANGED <<now, catalog, store, issued, history>>

\* VerifyMagicLink when s.db.GetUserByID returns an error: the call returns
\* "failed to get user"; the row was marked by the statement before.
VerifyMagicLinkUserFails(p) ==
    /\ pc[p] = "verify_user"
    /\ Finish(p, [req[p] EXCEPT !.outcome = "get_user_failed", !.status = "303_login_error"])
    /\ UNCHANGED <<now, catalog, store, issued, history>>

\* Login, one request at a time, on a store whose statements may fail.
NextFaults ==
    \/ Tick
    \/ \E email \in Emails : HandleMagicLinkRequest(SeqWorker, email, TRUE)
    \/ \E token \in Tokens \cup {EmptyToken} :
          HandleMagicLinkVerification(SeqWorker, token, TRUE)
    \/ Step(SeqWorker)
    \/ VerifyMagicLinkMarkFails(SeqWorker)
    \/ VerifyMagicLinkUserFails(SeqWorker)

SpecFaults == Init /\ [][NextFaults]_vars

\* ------------------------------------------------------- malformed requests
\* The login requests, one at a time, with the inputs a client can send in
\* place of an address or a token: the empty string.
NextInput ==
    \/ Tick
    \/ \E email \in Emails \cup {EmptyEmail} :
          HandleMagicLinkRequest(SeqWorker, email, TRUE)
    \/ \E token \in Tokens \cup {EmptyToken} :
          HandleMagicLinkVerification(SeqWorker, token, TRUE)
    \/ Step(SeqWorker)

SpecInput == Init /\ [][NextInput]_vars

\* ------------------------------------------------- session resolution alone
\* The two resolution paths applied to a store drawn from a bounded set: the
\* users and sessions two logins leave behind (ana signed up and logged in at
\* instant 0, bob at instant 1), each row present or not.  No statement of the
\* program deletes a user, so a session can outlive its user only when the
\* user row is removed in the database itself.
UsersAfterLogin ==
    {[id |-> 0, email |-> "ana@x", last_login |-> 0],
     [id |-> 1, email |-> "bob@x", last_login |-> 1]}

SessionsAfterLogin ==
    {[id |-> u.id, user_id |-> u.id, session_token |-> hashToken(u.id + 1),
      expires_at |-> u.last_login + SessionTTL, created_at |-> u.last_login] :
        u \in UsersAfterLogin}

InitResolve ==
    /\ now = 1
    /\ users \in SUBSET UsersAfterLogin
    /\ sessions \in SUBSET SessionsAfterLogin
    /\ magic_links = {} /\ bands = {} /\ band_members = {}
    /\ songs = {} /\ song_sections = {}
    /\ band_invitations = {}
    /\ issued = {1, 2}
    /\ pc = [p \in Procs |-> "idle"]
    /\ loc = [p \in Procs |-> NoLoc]
    /\ req = [p \in Procs |-> NoRes]
    /\ last = NoRes
    /\ linkEmail = [t \in Tokens |-> ""]
    /\ linkExp = [t \in Tokens |-> Null]
    /\ sessUser = [t \in Tokens |-> Null]
    /\ sessFrom = [t \in Tokens |-> EmptyToken]
    /\ sessExp = [t \in Tokens |-> Null]
    /\ okCount = [t \in Tokens |-> 0]
    /\ invalidated = {}

NextResolve ==
    \/ Tick
    \/ \E token \in Tokens \cup {EmptyToken} : HandleCurrentUser(SeqWorker, token, TRUE)
    \/ \E token \in Tokens \cup {EmptyToken} : ServeWelcome(SeqWorker, token, TRUE)

SpecResolve == InitResolve /\ [][NextResolve]_vars

\* ====================================================== authorization guard
\* Bands, songs and sections.  The handlers below run one request at a time,
\* so the statements of one handler are taken together as one step.

\* SELECT ... FROM band_members WHERE band_id = ? AND user_id = ? AND is_active = 1
GetBandMember(bandID, userID) ==
    {bm \in band_members : bm.band_id = bandID /\ bm.user_id = userID /\ bm.is_active}

\* DELETE FROM band_members WHERE band_id = ? AND user_id = ?
RemoveBandMember(bandID, userID) ==
    {bm \in band_members : ~(bm.band_id = bandID /\ bm.user_id = userID)}

\* SELECT ... FROM bands WHERE id = ?
GetBandByIDShared(bandID) == {b \in bands : b.id = bandID}

\* SELECT ... FROM songs s WHERE s.id = ? AND s.is_active = 1
GetSongByID(songID) == {s \in songs : s.id = songID /\ s.is_active}

\* SELECT COALESCE(MAX(position), 0) over the given positions.
MaxPosition(positions) ==
    IF positions = {} THEN 0 ELSE CHOOSE m \in positions : \A x \in positions : x <= m

\* INSERT INTO songs: id is the primary key.
CreateSongFails == \E s \in songs : s.id = generateUUID

\* CreateSong: the new song goes after the band's active songs.
CreateSong(bandID, content, createdBy) ==
    [id |-> generateUUID, band_id |-> bandID, created_by |-> createdBy,
     position |-> MaxPosition({s.position : s \in {x \in songs : x.band_id = bandID
                                                                /\ x.is_active}}) + 1,
     content |-> content, is_active |-> TRUE]

\* UPDATE songs SET ..., content = ? WHERE id = ?
UpdateSong(songID, content) ==
    {IF s.id = songID THEN [s EXCEPT !.content = content] ELSE s : s \in songs}

\* UPDATE songs SET is_active = 0 WHERE id = ?
DeleteSong(songID) ==
    {IF s.id = songID THEN [s EXCEPT !.is_active = FALSE] ELSE s : s \in songs}

\* The place the loop's last UPDATE for this id writes: i+1 of its last index.
PlaceIn(order, id) ==
    CHOOSE i \in 1..Len(order) :
        order[i] = id /\ \A j \in 1..Len(order) : order[j] = id => j <= i

\* for i, songID := range songOrder:
\*     UPDATE songs SET position = i+1 WHERE id = songID AND band_id = bandID
ReorderSongs(bandID, songOrder) ==
    {IF s.band_id = bandID /\ \E i \in 1..Len(songOrder) : songOrder[i] = s.id
     THEN [s EXCEPT !.position = PlaceIn(songOrder, s.id)] ELSE s : s \in songs}

\* INSERT INTO song_sections: id is the primary key.
CreateSongSectionFails == \E x \in song_sections : x.id = generateUUID

\* CreateSongSection: the new section goes after the song's active sections.
CreateSongSection(songID) ==
    [id |-> generateUUID, song_id |-> songID,
     position |-> MaxPosition({x.position : x \in {y \in song_sections :
                                              y.song_id = songID /\ y.is_active}}) + 1,
     is_active |-> TRUE]

\* UPDATE song_sections SET is_active = 0 WHERE id = ?
DeleteSongSection(sectionID) ==
    {IF x.id = sectionID THEN [x EXCEPT !.is_active = FALSE] ELSE x : x \in song_sections}

\* for i, sectionID := range sectionOrder:
\*     UPDATE song_sections SET position = i+1 WHERE id = sectionID AND song_id = songID
ReorderSongSections(songID, sectionOrder) ==
    {IF x.song_id = songID /\ \E i \in 1..Len(sectionOrder) : sectionOrder[i] = x.id
     THEN [x EXCEPT !.position = PlaceIn(sectionOrder, x.id)] ELSE x : x \in song_sections}

\* The caller's (or a target user's) role in a band: "none" without an active
\* member row, and for no band at all.
RoleIn(bandID, userID) ==
    IF GetBandMember(bandID, userID) = {} THEN "none"
    ELSE TheRow(GetBandMember(bandID, userID)).role

\* The band a song belongs to, whether or not the song is active.
BandOfSong(songID) ==
    IF \E s \in songs : s.id = songID
    THEN (CHOOSE s \in songs : s.id = songID).band_id ELSE Null

\* The band the song of a section belongs to.
BandOfSection(sectionID) ==
    IF \E x \in song_sections : x.id = sectionID
    THEN BandOfSong((CHOOSE x \in song_sections : x.id = sectionID).song_id) ELSE Null

\* The request changed a band, membership, song, section or invitation row.
Changed ==
    <<bands', band_members', songs', song_sections', band_invitations'>>
        # <<bands, band_members, songs, song_sections, band_invitations>>

\* The response of a guarded handler.  bandID is the band that owns what the
\* request is about (Null: the request names nothing that exists), userID the
\* user a membership request is about (Null: none).
Answer(op, token, bandID, userID, status, outcome) ==
    LET user == GetCurrentUser(token) IN
    [NoRes EXCEPT !.op = op, !.status = status, !.outcome = outcome,
                  !.auth = (user.outcome = "user"),
                  !.target = (GetBandByIDShared(bandID) # {}),
                  !.role = RoleIn(bandID, user.user),
                  !.targetRole = RoleIn(bandID, userID),
                  !.changed = Changed,
                  !.self = (user.outcome = "user" /\ user.user = userID)]

\* The band-scoped checks in the other order: the membership lookup first,
\* the current user after it.
BandGateMemberFirst(token, bandID) ==
    LET user == GetCurrentUser(token) IN
    IF user.outcome = "panic" THEN "panic"
    ELSE IF GetBandMember(bandID, user.user) = {} THEN "access_denied"
    ELSE IF user.outcome = "nil" THEN "unauthorized"
    ELSE "pass"

\* The checks that open every band-scoped handler: the current user, then the
\* caller's active membership in the band.
BandGate(token, bandID) ==
    LET user == GetCurrentUser(token) IN
    IF user.outcome = "panic" THEN "panic"
    ELSE IF user.outcome = "nil" THEN "unauthorized"
    ELSE IF GetBandMember(bandID, user.user) = {} THEN "access_denied"
    ELSE "pass"

\* The checks that open every song-scoped handler: the current user, the
\* active song, then the caller's active membership in the song's band.
SongGate(token, songID) ==
    LET user == GetCurrentUser(token) IN
    IF user.outcome = "panic" THEN "panic"
    ELSE IF user.outcome = "nil" THEN "unauthorized"
    ELSE IF GetSongByID(songID) = {} THEN "song_not_found"
    ELSE IF GetBandMember(TheRow(GetSongByID(songID)).band_id, user.user) = {}
    THEN "access_denied"
    ELSE "pass"

\* The status a failed gate is answered with.  behindAuth: the route is in
\* the authMiddleware group, which redirects a request without a current user
\* before the handler runs; elsewhere the handler answers 401 itself.
GateStatus(gate, behindAuth) ==
    CASE gate = "panic" -> "500"
      [] gate = "unauthorized" -> IF behindAuth THEN "303_login" ELSE "401"
      [] gate = "song_not_found" -> "404"
      [] gate = "access_denied" -> "403"

\* The membership handlers render every failure as a MembersSectionError
\* fragment and never set a status: the response is a 200 carrying the message.
MembersStatus(gate) ==
    CASE gate = "panic" -> "500"
      [] gate = "unauthorized" -> "303_login"
      [] OTHER -> "200_error"

\* What the guarded handlers leave alone.
GuardFrame == UNCHANGED <<now, users, magic_links, sessions, issued, history>>

\* GET /api/bands/band?id=
GetBand(p, token, bandID) ==
    /\ Idle(p, TRUE)
    /\ UNCHANGED band_invitations
    /\ UNCHANGED <<bands, band_members, songs, song_sections>>
    /\ LET gate == BandGate(token, bandID) IN
       IF gate # "pass"
       THEN Finish(p, Answer("get_band", token, bandID, Null, GateStatus(gate, TRUE), gate))
       ELSE IF GetBandByIDShared(bandID) = {}
       THEN Finish(p, Answer("get_band", token, bandID, Null, "404", "band_not_found"))
       ELSE Finish(p, Answer("get_band", token, bandID, Null, "200", "ok"))
    /\ GuardFrame

\* if role == "" { role = "member" }
DefaultRole(role) == IF role = "" THEN "member" ELSE role

\* InviteMember after the current user is known: the first check that fails,
\* or "ok" when AddBandMember has inserted the row.
InviteMemberChecks(bandID, userID, email, role) ==
    IF GetBandMember(bandID, userID) = {} THEN "access_denied"
    ELSE IF email = EmptyEmail THEN "email_required"
    ELSE IF GetUserByEmail(email) = {} THEN "user_does_not_exist"
    ELSE IF GetBandMember(bandID, TheRow(GetUserByEmail(email)).id) # {}
    THEN "already_member"
    ELSE IF DefaultRole(role) \notin {"member", "admin"} THEN "invalid_role"
    ELSE IF AddBandMemberFails(bandID, TheRow(GetUserByEmail(email)).id)
    THEN "add_member_failed"
    ELSE "ok"

\* POST /api/bands/invite?id=  (form: email, role)
InviteMember(p, token, bandID, email, role) ==
    /\ Idle(p, TRUE)
    /\ UNCHANGED band_invitations
    /\ LET user == GetCurrentUser(token)
           check == IF user.outcome = "user"
                    THEN InviteMemberChecks(bandID, user.user, email, role)
                    ELSE BandGate(token, bandID)
           invited == IF GetUserByEmail(email) = {} THEN Null
                      ELSE TheRow(GetUserByEmail(email)).id
       IN /\ band_members' =
               IF check = "ok"
               THEN band_members \cup {AddBandMember(bandID, invited, DefaultRole(role))}
               ELSE band_members
          /\ UNCHANGED <<bands, songs, song_sections>>
          /\ Finish(p, Answer("invite", token, bandID, invited,
                              IF check = "ok" THEN "200" ELSE MembersStatus(check), check))
    /\ GuardFrame

\* Variant: the caller may name themself.
RemoveMemberChecksSelfAllowed(bandID, currentUserID, userID) ==
    IF GetBandMember(bandID, currentUserID) = {} THEN "access_denied"
    ELSE IF GetBandMember(bandID, userID) = {} THEN "not_a_member"
    ELSE IF TheRow(GetBandMember(bandID, userID)).role = "owner"
    THEN "owner_cannot_be_removed"
    ELSE "ok"

\* Variant: the target's role is not looked at.
RemoveMemberChecksAnyRole(bandID, currentUserID, userID) ==
    IF GetBandMember(bandID, currentUserID) = {} THEN "access_denied"
    ELSE IF currentUserID = userID THEN "cannot_remove_yourself"
    ELSE IF GetBandMember(bandID, userID) = {} THEN "not_a_member"
    ELSE "ok"

\* RemoveMember after the current user is known: the first check that fails,
\* or "ok" when RemoveBandMember is reached.
RemoveMemberChecks(bandID, currentUserID, userID) ==
    IF GetBandMember(bandID, currentUserID) = {} THEN "access_denied"
    ELSE IF currentUserID = userID THEN "cannot_remove_yourself"
    ELSE IF GetBandMember(bandID, userID) = {} THEN "not_a_member"
    ELSE IF TheRow(GetBandMember(bandID, userID)).role = "owner"
    THEN "owner_cannot_be_removed"
    ELSE "ok"

\* DELETE /api/bands/members/remove?id=&user_id=
RemoveMember(p, token, bandID, userID) ==
    /\ Idle(p, TRUE)
    /\ UNCHANGED band_invitations
    /\ LET user == GetCurrentUser(token)
           check == IF user.outcome = "user"
                    THEN RemoveMemberChecks(bandID, user.user, userID)
                    ELSE BandGate(token, bandID)
       IN /\ band_members' =
               IF check = "ok" THEN RemoveBandMember(bandID, userID) ELSE band_members
          /\ UNCHANGED <<bands, songs, song_sections>>
          /\ Finish(p, Answer("remove", token, bandID, userID,
                              IF check = "ok" THEN "200" ELSE MembersStatus(check), check))
    /\ GuardFrame

\* The band of an active song (Null: no such active song).
BandOfActiveSong(songID) ==
    IF GetSongByID(songID) = {} THEN Null ELSE TheRow(GetSongByID(songID)).band_id

\* GET /api/bands/songs?id=
GetSongs(p, token, bandID) ==
    /\ Idle(p, TRUE)
    /\ UNCHANGED band_invitations
    /\ UNCHANGED <<bands, band_members, songs, song_sections>>
    /\ LET gate == BandGate(token, bandID) IN
       IF gate # "pass"
       THEN Finish(p, Answer("get_songs", token, bandID, Null, GateStatus(gate, TRUE), gate))
       ELSE Finish(p, Answer("get_songs", token, bandID, Null, "200", "ok"))
    /\ GuardFrame

\* POST /api/bands/songs?id=  (the title is present)
HandleCreateSong(p, token, bandID, content) ==
    /\ Idle(p, TRUE)
    /\ UNCHANGED band_invitations
    /\ UNCHANGED <<bands, band_members, song_sections>>
    /\ LET gate == BandGate(token, bandID) IN
       IF gate # "pass"
       THEN /\ UNCHANGED songs
            /\ Finish(p, Answer("create_song", token, bandID, Null,
                                GateStatus(gate, TRUE), gate))
       ELSE IF CreateSongFails
       THEN /\ UNCHANGED songs
            /\ Finish(p, Answer("create_song", token, bandID, Null, "500", "create_failed"))
       ELSE /\ songs' = songs \cup {CreateSong(bandID, content, GetCurrentUser(token).user)}
            /\ Finish(p, Answer("create_song", token, bandID, Null, "200", "ok"))
    /\ GuardFrame

\* POST /api/bands/songs/reorder?id=  (body: song_order)
HandleReorderSongs(p, token, bandID, songOrder) ==
    /\ Idle(p, TRUE)
    /\ UNCHANGED band_invitations
    /\ UNCHANGED <<bands, band_members, song_sections>>
    /\ LET gate == BandGate(token, bandID) IN
       IF gate # "pass"
       THEN /\ UNCHANGED songs
            /\ Finish(p, Answer("reorder_songs", token, bandID, Null,
                                GateStatus(gate, TRUE), gate))
       ELSE /\ songs' = ReorderSongs(bandID, songOrder)
            /\ Finish(p, Answer("reorder_songs", token, bandID, Null, "200", "ok"))
    /\ GuardFrame

\* Handler.DeleteSong (and SongHandler.DeleteSong, which checks the same),
\* DELETE /api/bands/songs/{songID}
HandleDeleteSong(p, token, songID) ==
    /\ Idle(p, TRUE)
    /\ UNCHANGED band_invitations
    /\ UNCHANGED <<bands, band_members, song_sections>>
    /\ LET gate == SongGate(token, songID)
           bandID == BandOfActiveSong(songID)
       IN IF gate # "pass"
          THEN /\ UNCHANGED songs
               /\ Finish(p, Answer("delete_song", token, bandID, Null,
                                   GateStatus(gate, TRUE), gate))
          ELSE /\ songs' = DeleteSong(songID)
               /\ Finish(p, Answer("delete_song", token, bandID, Null, "200", "ok"))
    /\ GuardFrame

\* Application.deleteSong, DELETE /api/bands/songs/{songID}: after the
\* membership check, only the song's creator or an owner or admin of the band
\* may delete.
deleteSong(p, token, songID) ==
    /\ Idle(p, TRUE)
    /\ UNCHANGED band_invitations
    /\ UNCHANGED <<bands, band_members, song_sections>>
    /\ LET gate == SongGate(token, songID)
           bandID == BandOfActiveSong(songID)
           user == GetCurrentUser(token).user
       IN IF gate # "pass"
          THEN /\ UNCHANGED songs
               /\ Finish(p, Answer("delete_song_app", token, bandID, Null,
                                   GateStatus(gate, FALSE), gate))
          ELSE IF /\ TheRow(GetSongByID(songID)).created_by # user
                  /\ RoleIn(bandID, user) \notin {"owner", "admin"}
          THEN /\ UNCHANGED songs
               /\ Finish(p, Answer("delete_song_app", token, bandID, Null,
                                   "403", "access_denied"))
          ELSE /\ songs' = DeleteSong(songID)
               /\ Finish(p, Answer("delete_song_app", token, bandID, Null, "200", "ok"))
    /\ GuardFrame

\* SongHandler.EditSong and SongHandler.UpdateSongContent: both end in
\* UpdateSong(songID, ..., content, ...) on the song of the path.
EditSong(p, token, songID, content) ==
    /\ Idle(p, TRUE)
    /\ UNCHANGED band_invitations
    /\ UNCHANGED <<bands, band_members, song_sections>>
    /\ LET gate == SongGate(token, songID)
           bandID == BandOfActiveSong(songID)
       IN IF gate # "pass"
          THEN /\ UNCHANGED songs
               /\ Finish(p, Answer("edit_song", token, bandID, Null,
                                   GateStatus(gate, FALSE), gate))
          ELSE /\ songs' = UpdateSong(songID, content)
               /\ Finish(p, Answer("edit_song", token, bandID, Null, "303_song", "ok"))
    /\ GuardFrame

UpdateSongContent(p, token, songID, content) ==
    /\ Idle(p, TRUE)
    /\ UNCHANGED band_invitations
    /\ UNCHANGED <<bands, band_members, song_sections>>
    /\ LET gate == SongGate(token, songID)
           bandID == BandOfActiveSong(songID)
       IN IF gate # "pass"
          THEN /\ UNCHANGED songs
               /\ Finish(p, Answer("update_song_content", token, bandID, Null,
                                   GateStatus(gate, FALSE), gate))
          ELSE /\ songs' = UpdateSong(songID, content)
               /\ Finish(p, Answer("update_song_content", token, bandID, Null, "200", "ok"))
    /\ GuardFrame

\* GET /api/songs/{songID}/sections
GetSongSections(p, token, songID) ==
    /\ Idle(p, TRUE)
    /\ UNCHANGED band_invitations
    /\ UNCHANGED <<bands, band_members, songs, song_sections>>
    /\ LET gate == SongGate(token, songID)
           bandID == BandOfActiveSong(songID)
       IN IF gate # "pass"
          THEN Finish(p, Answer("get_sections", token, bandID, Null,
                                GateStatus(gate, FALSE), gate))
          ELSE Finish(p, Answer("get_sections", token, bandID, Null, "200", "ok"))
    /\ GuardFrame

\* POST /api/songs/{songID}/sections  (the title is present); a failed insert
\* is rendered as an error fragment.
HandleCreateSongSection(p, token, songID) ==
    /\ Idle(p, TRUE)
    /\ UNCHANGED band_invitations
    /\ UNCHANGED <<bands, band_members, songs>>
    /\ LET gate == SongGate(token, songID)
           bandID == BandOfActiveSong(songID)
       IN IF gate # "pass"
          THEN /\ UNCHANGED song_sections
               /\ Finish(p, Answer("create_section", token, bandID, Null,
                                   GateStatus(gate, FALSE), gate))
          ELSE IF CreateSongSectionFails
          THEN /\ UNCHANGED song_sections
               /\ Finish(p, Answer("create_section", token, bandID, Null,
                                   "200_error", "create_failed"))
          ELSE /\ song_sections' = song_sections \cup {CreateSongSection(songID)}
               /\ Finish(p, Answer("create_section", token, bandID, Null, "200", "ok"))
    /\ GuardFrame

\* POST /api/songs/{songID}/sections/reorder  (body: section_order)
HandleReorderSongSections(p, token, songID, sectionOrder) ==
    /\ Idle(p, TRUE)
    /\ UNCHANGED band_invitations
    /\ UNCHANGED <<bands, band_members, songs>>
    /\ LET gate == SongGate(token, songID)
           bandID == BandOfActiveSong(songID)
       IN IF gate # "pass"
          THEN /\ UNCHANGED song_sections
               /\ Finish(p, Answer("reorder_sections", token, bandID, Null,
                                   GateStatus(gate, FALSE), gate))
          ELSE /\ song_sections' = ReorderSongSections(songID, sectionOrder)
               /\ Finish(p, Answer("reorder_sections", token, bandID, Null, "200", "ok"))
    /\ GuardFrame

\* DELETE /api/songs/{songID}/sections/{sectionID}: the membership check is on
\* the band of the path's song, the update on the section id alone.  The band
\* the request is about is the band that owns the section it names (the band
\* of the path's song when no such section exists; none when the path's song
\* is not found, which ends the request before any band is looked at).
HandleDeleteSongSection(p, token, songID, sectionID) ==
    /\ Idle(p, TRUE)
    /\ UNCHANGED band_invitations
    /\ UNCHANGED <<bands, band_members, songs>>
    /\ LET gate == SongGate(token, songID)
           bandID == IF GetSongByID(songID) # {} /\ BandOfSection(sectionID) # Null
                     THEN BandOfSection(sectionID)
                     ELSE BandOfActiveSong(songID)
           inside == \E x \in song_sections : x.id = sectionID /\ x.song_id = songID
       IN IF gate # "pass"
          THEN /\ UNCHANGED song_sections
               /\ Finish(p, [Answer("delete_section", token, bandID, Null,
                                    GateStatus(gate, FALSE), gate)
                               EXCEPT !.inside = inside])
          ELSE /\ song_sections' = DeleteSongSection(sectionID)
               /\ Finish(p, [Answer("delete_section", token, bandID, Null, "200", "ok")
                               EXCEPT !.inside = inside])
    /\ GuardFrame

\* POST /api/songs/{songID}/sections/ai-generate: the AI service fails, or
\* returns sections that are inserted one by one (an insert that fails is
\* logged and skipped).  The ids come from the clock, so of the sections of
\* one response the first is the one that can be inserted.
GenerateAISongSections(p, token, songID, generated) ==
    /\ Idle(p, TRUE)
    /\ UNCHANGED band_invitations
    /\ UNCHANGED <<bands, band_members, songs>>
    /\ LET gate == SongGate(token, songID)
           bandID == BandOfActiveSong(songID)
       IN IF gate # "pass"
          THEN /\ UNCHANGED song_sections
               /\ Finish(p, Answer("ai_sections", token, bandID, Null,
                                   GateStatus(gate, FALSE), gate))
          ELSE IF ~generated
          THEN /\ UNCHANGED song_sections
               /\ Finish(p, Answer("ai_sections", token, bandID, Null, "500", "ai_failed"))
          ELSE /\ song_sections' =
                    IF CreateSongSectionFails THEN song_sections
                    ELSE song_sections \cup {CreateSongSection(songID)}
               /\ Finish(p, Answer("ai_sections", token, bandID, Null, "200", "ok"))
    /\ GuardFrame

\* ------------------------------------------------------ guard: the requests
\* The store the guarded requests start from, as earlier requests left it.
\* Ids are the instants of creation; the instants before the clock's origin
\* are negative (and below Null).  ana signed up and logged in first, which
\* made her default band; then bob; cat has only requested a link.  ana has
\* invited bob into her band as member or as admin, or not at all.  ana logged
\* in again at instant 0 and bob at instant 1, which is the present.
GuardUsers ==
    {[id |-> -4, email |-> "ana@x", last_login |-> 0],
     [id |-> -3, email |-> "bob@x", last_login |-> 1],
     [id |-> -2, email |-> "cat@x", last_login |-> Null]}

GuardSessions ==
    {[id |-> 0, user_id |-> -4, session_token |-> hashToken(1),
      expires_at |-> 0 + SessionTTL, created_at |-> 0],
     [id |-> 1, user_id |-> -3, session_token |-> hashToken(2),
      expires_at |-> 1 + SessionTTL, created_at |-> 1]}

GuardBands == {[id |-> -4, created_by |-> -4], [id |-> -3, created_by |-> -3]}

GuardOwners ==
    {[id |-> b.id, band_id |-> b.id, user_id |-> b.created_by,
      role |-> "owner", is_active |-> TRUE] : b \in GuardBands}

GuardInvited ==
    {{}} \cup {{[id |-> -2, band_id |-> -4, user_id |-> -3,
                 role |-> role, is_active |-> TRUE]} : role \in {"member", "admin"}}

InitGuard ==
    /\ now = 1
    /\ users = GuardUsers
    /\ sessions = GuardSessions
    /\ magic_links = {}
    /\ bands = GuardBands
    /\ \E invited \in GuardInvited : band_members = GuardOwners \cup invited
    /\ songs = {} /\ song_sections = {}
    /\ band_invitations = {}
    /\ issued = {1, 2}
    /\ pc = [p \in Procs |-> "idle"]
    /\ loc = [p \in Procs |-> NoLoc]
    /\ req = [p \in Procs |-> NoRes]
    /\ last = NoRes
    /\ linkEmail = [t \in Tokens |-> ""]
    /\ linkExp = [t \in Tokens |-> Null]
    /\ sessUser = [t \in Tokens |-> Null]
    /\ sessFrom = [t \in Tokens |-> EmptyToken]
    /\ sessExp = [t \in Tokens |-> Null]
    /\ okCount = [t \in Tokens |-> 0]
    /\ invalidated = {}

\* What a request can carry: a session cookie that was handed out or none,
\* the id of a band, user, song or section that exists, the email of a user
\* or of nobody, any role name, a text, and an order of one or two
\* of the ids.
GuardTokens == issued \cup {EmptyToken}
BandIDs == {b.id : b \in bands}
UserIDs == {u.id : u \in users}
SongIDs == {s.id : s \in songs}
SectionIDs == {x.id : x \in song_sections}
InviteEmails == {u.email : u \in users} \cup {EmptyEmail, "dan@x"}
Roles == {"", "member", "admin", "owner"}
MemberRoles == {"member", "admin"}
NoContent == ""
Contents == {"a"}
Orders(ids) == {<<i>> : i \in ids} \cup {<<i, j>> : i, j \in ids}

\* Membership management alone.
NextMembers ==
    \/ Tick
    \/ \E token \in GuardTokens, bandID \in BandIDs : GetBand(SeqWorker, token, bandID)
    \/ \E token \in GuardTokens, bandID \in BandIDs, email \in InviteEmails, role \in Roles :
          InviteMember(SeqWorker, token, bandID, email, role)
    \/ \E token \in GuardTokens, bandID \in BandIDs, userID \in UserIDs :
          RemoveMember(SeqWorker, token, bandID, userID)

SpecMembers == InitGuard /\ [][NextMembers]_vars

\* The song-scoped requests on a fixed membership.
NextSongs ==
    \/ Tick
    \/ \E token \in GuardTokens, bandID \in BandIDs : GetSongs(SeqWorker, token, bandID)
    \/ \E token \in GuardTokens, bandID \in BandIDs :
          HandleCreateSong(SeqWorker, token, bandID, NoContent)
    \/ \E token \in GuardTokens, bandID \in BandIDs, songOrder \in Orders(SongIDs) :
          HandleReorderSongs(SeqWorker, token, bandID, songOrder)
    \/ \E token \in GuardTokens, songID \in SongIDs : HandleDeleteSong(SeqWorker, token, songID)
    \/ \E token \in GuardTokens, songID \in SongIDs : deleteSong(SeqWorker, token, songID)
    \/ \E token \in GuardTokens, songID \in SongIDs, content \in Contents :
          EditSong(SeqWorker, token, songID, content)
    \/ \E token \in GuardTokens, songID \in SongIDs, content \in Contents :
          UpdateSongContent(SeqWorker, token, songID, content)

SpecSongs == InitGuard /\ [][NextSongs]_vars

\* The section-scoped requests on a fixed membership, with one song in each
\* band: ana made hers at instant -3, bob his at instant -2.
GuardSongs ==
    {[id |-> -3, band_id |-> -4, created_by |-> -4, position |-> 1,
      content |-> NoContent, is_active |-> TRUE],
     [id |-> -2, band_id |-> -3, created_by |-> -3, position |-> 1,
      content |-> NoContent, is_active |-> TRUE]}

InitSections ==
    /\ now = 1
    /\ users = GuardUsers
    /\ sessions = GuardSessions
    /\ magic_links = {}
    /\ bands = GuardBands
    /\ \E invited \in GuardInvited : band_members = GuardOwners \cup invited
    /\ songs = GuardSongs
    /\ song_sections = {}
    /\ band_invitations = {}
    /\ issued = {1, 2}
    /\ pc = [p \in Procs |-> "idle"]
    /\ loc = [p \in Procs |-> NoLoc]
    /\ req = [p \in Procs |-> NoRes]
    /\ last = NoRes
    /\ linkEmail = [t \in Tokens |-> ""]
    /\ linkExp = [t \in Tokens |-> Null]
    /\ sessUser = [t \in Tokens |-> Null]
    /\ sessFrom = [t \in Tokens |-> EmptyToken]
    /\ sessExp = [t \in Tokens |-> Null]
    /\ okCount = [t \in Tokens |-> 0]
    /\ invalidated = {}

NextSections ==
    \/ Tick
    \/ \E token \in GuardTokens, songID \in SongIDs : GetSongSections(SeqWorker, token, songID)
    \/ \E token \in GuardTokens, songID \in SongIDs :
          HandleCreateSongSection(SeqWorker, token, songID)
    \/ \E token \in GuardTokens, songID \in SongIDs, sectionOrder \in Orders(SectionIDs) :
          HandleReorderSongSections(SeqWorker, token, songID, sectionOrder)
    \/ \E token \in GuardTokens, songID \in SongIDs, sectionID \in SectionIDs :
          HandleDeleteSongSection(SeqWorker, token, songID, sectionID)
    \/ \E token \in GuardTokens, songID \in SongIDs, generated \in BOOLEAN :
          GenerateAISongSections(SeqWorker, token, songID, generated)

SpecSections == InitSections /\ [][NextSections]_vars

\* ------------------------------------------------ bands and invitations
\* SELECT ... FROM band_invitations bi ... WHERE bi.id = ?
GetBandInvitationByID(invitationID) == {i \in band_invitations : i.id = invitationID}

\* INSERT INTO band_invitations: id is the primary key; status starts 'pending'.
CreateBandInvitationFails == \E i \in band_invitations : i.id = generateUUID

CreateBandInvitation(bandID, invitedEmail, role, expiresAt) ==
    [id |-> generateUUID, band_id |-> bandID, invited_email |-> invitedEmail,
     role |-> role, status |-> "pending", expires_at |-> expiresAt]

\* AcceptBandInvitation: the first step that fails, or "ok" when the
\* transaction (status update, member insert) has been committed.  A failed
\* insert rolls the status update back.
AcceptBandInvitation(invitationID, userID) ==
    LET invitation == GetBandInvitationByID(invitationID) IN
    IF invitation = {} THEN "invitation_not_found"
    ELSE IF TheRow(invitation).status # "pending" \/ now > TheRow(invitation).expires_at
    THEN "no_longer_valid"
    ELSE IF AddBandMemberFails(TheRow(invitation).band_id, userID)
    THEN "add_member_failed"
    ELSE "ok"

\* UPDATE band_invitations SET status = 'accepted' WHERE id = ?
MarkInvitationAccepted(invitationID) ==
    {IF i.id = invitationID THEN [i EXCEPT !.status = "accepted"] ELSE i :
        i \in band_invitations}

\* UPDATE band_invitations SET status = 'declined' WHERE id = ?
DeclineBandInvitation(invitationID) ==
    {IF i.id = invitationID THEN [i EXCEPT !.status = "declined"] ELSE i :
        i \in band_invitations}

\* UPDATE band_invitations SET status = 'expired'
\*     WHERE status = 'pending' AND expires_at < ?
CleanupExpiredInvitationsRows ==
    {IF i.status = "pending" /\ i.expires_at < now
     THEN [i EXCEPT !.status = "expired"] ELSE i : i \in band_invitations}

\* The caller is the user an invitation was sent to.
Addressee(token, invitationID) ==
    LET user == GetCurrentUser(token) IN
    /\ user.outcome = "user"
    /\ \E i \in GetBandInvitationByID(invitationID), u \in GetUserByID(user.user) :
          u.email = i.invited_email

\* The band of an invitation (Null: no such invitation).
BandOfInvitation(invitationID) ==
    IF GetBandInvitationByID(invitationID) = {} THEN Null
    ELSE TheRow(GetBandInvitationByID(invitationID)).band_id

\* POST /api/bands (the name is present) -> CreateBand: INSERT INTO bands,
\* then AddBandMember(bandID, createdBy, "owner"), each a statement of its
\* own outside any transaction.  writeFails: the second statement returns an
\* error (it also fails on a clash of its id or of UNIQUE(band_id, user_id)).
HandleCreateBand(p, token, writeFails) ==
    /\ Idle(p, TRUE)
    /\ Cardinality(bands) < MaxBands
    /\ UNCHANGED <<songs, song_sections>>
    /\ UNCHANGED band_invitations
    /\ LET user == GetCurrentUser(token)
           gate == IF user.outcome = "panic" THEN "panic"
                   ELSE IF user.outcome = "nil" THEN "unauthorized" ELSE "pass"
           noOwner == writeFails \/ AddBandMemberFails(generateUUID, user.user)
       IN IF gate # "pass"
          THEN /\ UNCHANGED <<bands, band_members>>
               /\ Finish(p, Answer("create_band", token, Null, Null,
                                   GateStatus(gate, TRUE), gate))
          ELSE IF CreateBandFails
          THEN /\ UNCHANGED <<bands, band_members>>
               /\ Finish(p, Answer("create_band", token, Null, Null,
                                   "500", "create_band_failed"))
          ELSE /\ bands' = bands \cup {[id |-> generateUUID, created_by |-> user.user]}
               /\ band_members' =
                    IF noOwner THEN band_members
                    ELSE band_members \cup {AddBandMember(generateUUID, user.user, "owner")}
               /\ Finish(p, Answer("create_band", token, Null, Null,
                                   IF noOwner THEN "500" ELSE "200",
                                   IF noOwner THEN "add_owner_failed" ELSE "ok"))
    /\ GuardFrame

\* Application.inviteMember after the current user is known: the first check
\* that fails, or "ok" when CreateBandInvitation has inserted the row.
inviteMemberChecks(bandID, userID, email, role) ==
    IF GetBandMember(bandID, userID) = {} THEN "access_denied"
    ELSE IF email = EmptyEmail THEN "email_required"
    ELSE IF GetUserByEmail(email) = {} THEN "user_does_not_exist"
    ELSE IF GetBandMember(bandID, TheRow(GetUserByEmail(email)).id) # {}
    THEN "already_member"
    ELSE IF DefaultRole(role) \notin {"member", "admin"} THEN "invalid_role"
    ELSE IF CreateBandInvitationFails THEN "create_invitation_failed"
    ELSE "ok"

\* The status of each answer of Application.inviteMember.
inviteMemberStatus(check) ==
    CASE check = "ok" -> "200"
      [] check = "panic" -> "500"
      [] check = "unauthorized" -> "303_login"
      [] check = "access_denied" -> "403"
      [] check = "create_invitation_failed" -> "500"
      [] OTHER -> "400"

\* Application.inviteMember, POST /api/bands/invite?id= (form: email, role):
\* the invitation is stored pending, to expire InvitationTTL from now.
inviteMember(p, token, bandID, email, role) ==
    /\ Idle(p, TRUE)
    /\ Cardinality(band_invitations) < MaxInvitations
    /\ UNCHANGED <<songs, song_sections>>
    /\ UNCHANGED <<bands, band_members>>
    /\ LET user == GetCurrentUser(token)
           check == IF user.outcome = "user"
                    THEN inviteMemberChecks(bandID, user.user, email, role)
                    ELSE BandGate(token, bandID)
           invited == IF GetUserByEmail(email) = {} THEN Null
                      ELSE TheRow(GetUserByEmail(email)).id
       IN /\ band_invitations' =
               IF check = "ok"
               THEN band_invitations \cup
                      {CreateBandInvitation(bandID, email, DefaultRole(role),
                                            now + InvitationTTL)}
               ELSE band_invitations
          /\ Finish(p, Answer("invite_by_invitation", token, bandID, invited,
                              inviteMemberStatus(check), check))
    /\ GuardFrame

\* POST /api/invitations/accept (body: invitation_id): every error of
\* AcceptBandInvitation is answered 500.
AcceptInvitation(p, token, invitationID) ==
    /\ Idle(p, TRUE)
    /\ UNCHANGED <<songs, song_sections>>
    /\ UNCHANGED bands
    /\ LET user == GetCurrentUser(token)
           check == IF user.outcome = "panic" THEN "panic"
                    ELSE IF user.outcome = "nil" THEN "unauthorized"
                    ELSE AcceptBandInvitation(invitationID, user.user)
           invitation == TheRow(GetBandInvitationByID(invitationID))
       IN /\ band_invitations' =
               IF check = "ok" THEN MarkInvitationAccepted(invitationID)
               ELSE band_invitations
          /\ band_members' =
               IF check = "ok"
               THEN band_members \cup
                      {AddBandMember(invitation.band_id, user.user, invitation.role)}
               ELSE band_members
          /\ Finish(p, [Answer("accept", token, BandOfInvitation(invitationID), user.user,
                               IF check = "ok" THEN "200"
                               ELSE IF check = "unauthorized" THEN "303_login" ELSE "500",
                               check)
                          EXCEPT !.addressee = Addressee(token, invitationID)])
    /\ GuardFrame

\* POST /api/invitations/decline (body: invitation_id): the handler does not
\* look at the current user; the route is in the authMiddleware group.
DeclineInvitation(p, token, invitationID) ==
    /\ Idle(p, TRUE)
    /\ UNCHANGED <<songs, song_sections>>
    /\ UNCHANGED <<bands, band_members>>
    /\ LET user == GetCurrentUser(token)
           check == IF user.outcome = "panic" THEN "panic"
                    ELSE IF user.outcome = "nil" THEN "unauthorized" ELSE "ok"
       IN /\ band_invitations' =
               IF check = "ok" THEN DeclineBandInvitation(invitationID)
               ELSE band_invitations
          /\ Finish(p, [Answer("decline", token, BandOfInvitation(invitationID), user.user,
                               IF check = "ok" THEN "200" ELSE GateStatus(check, TRUE),
                               check)
                          EXCEPT !.addressee = Addressee(token, invitationID)])
    /\ GuardFrame

\* CleanupExpiredInvitations, whenever it is called.
CleanupExpiredInvitations ==
    /\ band_invitations' = CleanupExpiredInvitationsRows
    /\ Quiet
    /\ UNCHANGED <<now, store, songs, song_sections, issued, pc, loc, req, history>>

\* The store the band and invitation requests start from: that of InitGuard,
\* where ana may have sent cat an invitation at instant 0.
GuardInvitations ==
    {{}, {[id |-> 0, band_id |-> -4, invited_email |-> "cat@x", role |-> "member",
           status |-> "pending", expires_at |-> 0 + InvitationTTL]}}

InitBands ==
    /\ now = 1
    /\ users = GuardUsers
    /\ sessions = GuardSessions
    /\ magic_links = {}
    /\ bands = GuardBands
    /\ \E invited \in GuardInvited : band_members = GuardOwners \cup invited
    /\ songs = {} /\ song_sections = {}
    /\ band_invitations \in GuardInvitations
    /\ issued = {1, 2}
    /\ pc = [p \in Procs |-> "idle"]
    /\ loc = [p \in Procs |-> NoLoc]
    /\ req = [p \in Procs |-> NoRes]
    /\ last = NoRes
    /\ linkEmail = [t \in Tokens |-> ""]
    /\ linkExp = [t \in Tokens |-> Null]
    /\ sessUser = [t \in Tokens |-> Null]
    /\ sessFrom = [t \in Tokens |-> EmptyToken]
    /\ sessExp = [t \in Tokens |-> Null]
    /\ okCount = [t \in Tokens |-> 0]
    /\ invalidated = {}

InvitationIDs == {i.id : i \in band_invitations}

\* Band creation and what changes a band's members afterwards.
NextBands ==
    \/ Tick
    \/ \E token \in GuardTokens, writeFails \in BOOLEAN :
          HandleCreateBand(SeqWorker, token, writeFails)
    \/ \E token \in GuardTokens, bandID \in BandIDs, u \in users, role \in MemberRoles :
          InviteMember(SeqWorker, token, bandID, u.email, role)
    \/ \E token \in GuardTokens, invitationID \in InvitationIDs :
          AcceptInvitation(SeqWorker, token, invitationID)
    \/ \E token \in GuardTokens, bandID \in BandIDs, userID \in UserIDs :
          RemoveMember(SeqWorker, token, bandID, userID)

SpecBands == InitBands /\ [][NextBands]_vars

\* The life of an invitation: sent, then accepted, declined or expired.
NextInvitations ==
    \/ Tick
    \/ \E token \in GuardTokens, bandID \in BandIDs, email \in InviteEmails, role \in Roles :
          inviteMember(SeqWorker, token, bandID, email, role)
    \/ \E token \in GuardTokens, invitationID \in InvitationIDs :
          AcceptInvitation(SeqWorker, token, invitationID)
    \/ \E token \in GuardTokens, invitationID \in InvitationIDs :
          DeclineInvitation(SeqWorker, token, invitationID)
    \/ CleanupExpiredInvitations

SpecInvitations == InitBands /\ [][NextInvitations]_vars

\* ================================================================ claims

\* The response just sent answers a verification / a session resolution
\* that presented a token (not the empty string).
Verified == last.op = "verify" /\ last.token # EmptyToken
Resolved == last.op = "resolve" /\ last.token # EmptyToken

\* The session tokens minted by verifications of link token t.
SessionsOf(t) == {s \in Tokens : sessFrom[s] = t}

\* C1 (SpecSeq).  With requests served one at a time, a verification that
\* succeeds is the first to succeed for its token and was made no later than
\* the link's expiry: once a link has been verified, or the clock has passed
\* its expiry, no verification of it succeeds.
C1_SingleUse ==
    (Verified /\ last.outcome = "ok") =>
        /\ last.nth = 1
        /\ last.first /\ last.found /\ ~last.used
        /\ last.when \in {"before", "at"}

\* A second verification of a consumed, unexpired link has just been refused.
C1_Witness ==
    /\ Verified /\ last.outcome = "used"
    /\ okCount[last.token] = 1 /\ last.when # "after"

\* C2 (Spec).  Under concurrent verifications no link token is verified
\* successfully more than once.
C2_AtMostOneSuccess == \A t \in Tokens : okCount[t] <= 1

\* C3 (Spec).  Over all verification requests for one link token at most one
\* session is created, and a failed verification sets no session cookie.
C3_AtMostOneSession ==
    /\ \A t \in Tokens : Cardinality(SessionsOf(t)) <= 1
    /\ (Verified /\ last.outcome # "ok") => last.cookie = EmptyToken

\* C4 as stated (SpecSeq): a verification made at the instant now = expires_at
\* of an existing, unused link does not succeed.
C4_BoundaryExpired ==
    (Verified /\ last.found /\ ~last.used /\ last.when = "at") => last.outcome # "ok"

\* C4 amended (SpecSeq).  A verification of an existing, unused link made at
\* now = expires_at succeeds and leaves the link marked used; one made after
\* that instant fails as expired.
C4_BoundaryValid ==
    (Verified /\ last.found /\ ~last.used) =>
        /\ last.when = "at" =>
              /\ last.outcome = "ok"
              /\ \A m \in GetMagicLinkByTokenHash(hashToken(last.token)) :
                    m.used_at # Null
        /\ last.when = "after" => last.outcome = "expired"

\* A verification made exactly at the expiry instant has just succeeded.
C4_Witness ==
    /\ Verified /\ last.found /\ ~last.used /\ last.when = "at"
    /\ last.outcome = "ok"

C6_RoundTrip ==
    (Verified /\ linkEmail[last.token] # "" /\ last.when = "before" /\ last.first) =>
        /\ last.outcome = "ok"
        /\ \E u \in users : u.id = last.user /\ u.email = linkEmail[last.token]

\* Such a verification has just succeeded while another user exists.
C6_Witness ==
    /\ Verified /\ linkEmail[last.token] # "" /\ last.when = "before" /\ last.first
    /\ last.outcome = "ok"
    /\ \E u \in users : u.id # last.user

C8_LogoutDeletesSession ==
    (last.op = "logout" /\ sessUser[last.token] # Null) =>
        GetSessionByToken(hashToken(last.token)) = {}

\* C9 (SpecSeq).  Every stored session expires SessionTTL after its creation
\* and keeps the expiry it was created with, and no resolution succeeds after
\* that instant.
C9_FixedExpiry ==
    /\ \A s \in sessions :
          /\ s.expires_at = s.created_at + SessionTTL
          /\ \A t \in Tokens : s.session_token = hashToken(t) => s.expires_at = sessExp[t]
    /\ (Resolved /\ last.outcome = "ok") => last.when \in {"before", "at"}

\* A stored session has just been refused as expired.
C9_Witness ==
    /\ Resolved /\ last.outcome = "expired" /\ last.when = "after"
    /\ GetSessionByToken(hashToken(last.token)) # {}

MissingUser ==
    /\ last.op \in {"resolve", "protected"} /\ last.token # EmptyToken
    /\ \E s \in GetSessionByToken(hashToken(last.token)) :
          now <= s.expires_at /\ GetUserByID(s.user_id) = {}

\* C11 (SpecResolve).  A request presenting the token of an existing, unexpired
\* session whose user row is missing is treated as unauthenticated (401 from
\* /auth/me, the redirect to the login page from a protected route) and yields
\* no user; it is not answered by a crash of the handler.
C11_MissingUserUnauthenticated ==
    MissingUser =>
        /\ last.status \in {"401", "303_login"}
        /\ last.outcome # "panic"
        /\ last.user = Null

\* C12 (Spec).  Whatever the interleaving of magic-link requests, no email has
\* two users, a request that returns a token leaves exactly one user with its
\* email, and no request is refused at the user insert because its email has
\* been registered meanwhile: concurrent requests for one unseen email each
\* get their token.
C12_SignupUnique ==
    /\ \A e \in Emails : Cardinality(GetUserByEmail(e)) <= 1
    /\ (last.op = "magic_link" /\ last.status = "200") =>
          Cardinality(GetUserByEmail(last.email)) = 1
    /\ (last.op = "magic_link" /\ last.outcome = "create_user_error") =>
          GetUserByEmail(last.email) = {}

\* The stored MagicLink rows of raw link token t.
LinkRows(t) == GetMagicLinkByTokenHash(hashToken(t))

\* A verification of t has marked the link but not yet returned its user.
Marking(t) == \E p \in Procs : pc[p] = "verify_user" /\ req[p].token = t

C14_CleanupOnlyExpired ==
    [][/\ \A m \in magic_links :
             (\A k \in magic_links' : k.id # m.id) => VerifyChecks({m}) = "expired"
       /\ \A s \in sessions :
             (\A k \in sessions' : k.id # s.id) =>
                 \A t \in Tokens : hashToken(t) = s.session_token =>
                     GetUserFromSession(t).outcome = "expired"]_vars

\* A sweep has removed an issued link while another link is stored and has
\* not passed its expiry.
C14_Witness ==
    /\ \E t \in Tokens : linkExp[t] # Null /\ LinkRows(t) = {}
    /\ \E t \in Tokens : LinkRows(t) # {} /\ now <= linkExp[t]

\* C15 (SpecSeq).  A verification whose last-login update failed still
\* succeeds: it returns the user the link was issued for, and the link is
\* marked used.
C15_LastLoginBestEffort ==
    (Verified /\ last.lastLoginFailed) =>
        /\ last.outcome = "ok"
        /\ \E u \in GetUserByID(last.user) : u.email = linkEmail[last.token]
        /\ \A m \in LinkRows(last.token) : m.used_at # Null

\* A login has just completed although its last-login update failed: the
\* user's last_login is still unset and the link is stored as used.
C15_Witness ==
    /\ Verified /\ last.lastLoginFailed /\ last.status = "303_bands"
    /\ \E u \in GetUserByID(last.user) : u.last_login = Null
    /\ \E m \in LinkRows(last.token) : m.used_at # Null

\* What the client sees of a response: the status line with its redirect
\* target, and the session cookie set.
ClientView(r) == [status |-> r.status, cookie |-> r.cookie]

\* C16 (SpecSeq).  A verification with a non-empty token that fails because
\* no link matches, because the link has expired or because it was already
\* used is answered in each case by the same response: the redirect to the
\* login page with the generic error indicator, and no session cookie.
C16_FailuresIndistinguishable ==
    (Verified /\ last.outcome \in {"invalid", "expired", "used"}) =>
        ClientView(last) = [status |-> "303_login_error", cookie |-> EmptyToken]

\* An unused link presented after its expiry has just been refused with the
\* generic redirect.
C16_Witness ==
    /\ Verified /\ last.outcome = "expired" /\ last.found /\ ~last.used
    /\ ClientView(last) = [status |-> "303_login_error", cookie |-> EmptyToken]

\* C17 (SpecInput).  A magic-link request with an empty email and a
\* verification with an empty token are answered 400, and no user is ever
\* stored for the empty email (so no link or session of such a user either).
C17_MalformedRejected ==
    /\ (last.op = "magic_link" /\ last.email = EmptyEmail) => last.status = "400"
    /\ (last.op = "verify" /\ last.token = EmptyToken) => last.status = "400"
    /\ GetUserByEmail(EmptyEmail) = {}


\* C18: membership gate.  A band-, song- or section-scoped request of an
\* authenticated user who has no active member row in the band that owns what
\* the request is about is answered "Access denied" and changes no band,
\* membership, song or section row.
C18_MembershipGate ==
    (last.auth /\ last.target /\ last.role = "none")
        => (last.outcome = "access_denied" /\ ~last.changed)

\* C19: role gate for membership management.  An InviteMember or RemoveMember
\* request of a caller whose role in the band is plain member is rejected and
\* leaves the membership unchanged; a caller whose role is owner or admin is
\* not denied access.
C19_RoleGate ==
    (last.op \in {"invite", "remove"} /\ last.auth)
        => /\ last.role = "member" => (last.outcome # "ok" /\ ~last.changed)
           /\ last.role \in {"owner", "admin"} => last.outcome # "access_denied"

\* C20: the owner cannot be removed.  A RemoveMember request whose target has
\* role owner in the band is rejected whatever the caller's role, and changes
\* no membership; so every band keeps the owner row of its creator.
C20_OwnerNotRemoved ==
    /\ (last.op = "remove" /\ last.targetRole = "owner")
          => (last.outcome # "ok" /\ ~last.changed)
    /\ \A b \in bands : RoleIn(b.id, b.created_by) = "owner"

\* An admin of the band asked to remove its owner and was turned down by the
\* owner check.
C20_Witness ==
    /\ last.op = "remove" /\ last.auth
    /\ last.role = "admin" /\ last.targetRole = "owner"
    /\ last.outcome = "owner_cannot_be_removed"
    /\ ~last.changed

\* C21: self-removal is rejected.  A RemoveMember request whose target is the
\* caller is rejected whatever the caller's role in the band, and changes no
\* membership.
C21_SelfRemovalRejected ==
    (last.op = "remove" /\ last.self) => (last.outcome # "ok" /\ ~last.changed)

\* A plain member asked to be removed and was turned down by the self check.
C21_Witness ==
    /\ last.op = "remove" /\ last.self
    /\ last.role = "member"
    /\ last.outcome = "cannot_remove_yourself"
    /\ ~last.changed

\* C22: exactly one owner per band.  Every band has exactly one active member
\* with role owner, and that member is the user who created the band.
C22_ExactlyOneOwner ==
    \A b \in bands :
        LET owners == {bm \in band_members :
                          bm.band_id = b.id /\ bm.is_active /\ bm.role = "owner"}
        IN /\ Cardinality(owners) = 1
           /\ \A bm \in owners : bm.user_id = b.created_by

\* C23: song and section mutations need only active membership.  A request
\* to create, edit, delete or reorder a band's songs or sections whose caller
\* has an active member row in that band, whatever its role, is not denied
\* access.
C23_MembersMayMutate ==
    (last.auth /\ last.target /\ last.role \in {"owner", "admin", "member"})
        => last.outcome # "access_denied"

C25_ErrorLeavesLinkUnused ==
    (/\ last.op = "verify" /\ last.found /\ ~last.used
     /\ last.outcome \in {"invalid", "expired", "used", "mark_failed",
                           "get_user_failed", "user_not_found"})
        => \A ml \in GetMagicLinkByTokenHash(hashToken(last.token)) : ml.used_at = Null

C26_CreateNeverClashes ==
    /\ (last.op = "magic_link" /\ last.outcome = "create_user_error")
          => GetUserByEmail(last.email) # {}
    /\ ~(last.op = "magic_link" /\ last.outcome = "store_error")

\* C28: invitations can only be accepted by their addressee.  An accept
\* request of an authenticated user whose email is not the invitation's
\* invited_email is rejected and changes neither the invitation nor any
\* membership.
C28_OnlyAddresseeAccepts ==
    (last.op = "accept" /\ last.auth /\ ~last.addressee)
        => (last.outcome # "ok" /\ ~last.changed)

\* C29: invitation status is monotonic.  No step changes the status of an
\* invitation that is accepted, declined or expired, nor removes the row.
C29_StatusMonotonic ==
    [][\A i \in band_invitations :
          i.status # "pending"
            => \E j \in band_invitations' : j.id = i.id /\ j.status = i.status]_vars

\* C30: section deletion stays inside the checked song.  A delete request
\* for the path (songID, sectionID) that deactivates a section does so only
\* when that section belongs to songID, the song whose band was checked.
C30_DeletionInsideSong ==
    (last.op = "delete_section" /\ last.changed) => last.inside

====
